---- MODULE Spec2Model ----
(***************************************************************************)
(* A model of ArraySearcher (src/interpolation_search.py): the searcher    *)
(* object `self`, the local variables of each running call of search()     *)
(* (`frame`), and the local variables of compare_methods() (`cm`); the     *)
(* number of calls of search() entered so far on the searcher (`calls`);   *)
(* and the call of generate_random_int_array of src/IST.py (`gen`).        *)
(*                                                                         *)
(* Python values are modelled as follows.                                  *)
(*   - None and unbound locals are the empty tuple <<>>; a bound index i   *)
(*     that may also be None is the 1-tuple <<i>>.                         *)
(*   - a list is a sequence; Python's index i is position i + 1, and a     *)
(*     negative index counts from the end, as in Python.                   *)
(*   - a float that is a ratio of two integers is the pair <<num, den>>;   *)
(*     thresholds are given as such pairs with a positive denominator.     *)
(*   - an exception is the name of its class in the field err.             *)
(***************************************************************************)
EXTENDS Integers, Sequences, FiniteSets, TLC

VARIABLES self, frame, cm, calls, gen

vars == <<self, frame, cm, calls, gen>>

-----------------------------------------------------------------------------
(* Bounds of the model. *)

\* Longest input list given to the constructor.
MaxLen == 4
\* Largest value in a generated input list (values are 0..MaxVal).
MaxVal == 6
\* A call stops being followed once it has made this many guesses.
MaxSteps == 10
\* Input lists of the specification of concurrent calls.
SmallLen == 3
SmallVal == 3
\* Input lists of the specification of compare_methods.
CmLen == 3
CmVal == 2
\* Longest mixed_thresholds list given to compare_methods.
MaxThresholds == 2
\* Calls of search() made one after another on one searcher.
MaxCalls == 2
\* generate_random_int_array: min_val and max_val are in -GenVal..GenVal,
\* array_length in 0..GenLen.
GenVal == 1
GenLen == 3

None == <<>>

Main == "main"
Threads == {"main", "other"}

Strategies == {"interpolation", "binary", "mixed"}

\* interpolation_threshold values, as <<numerator, denominator>>.
DefaultThreshold == <<1, 4>>
Thresholds == {<<0, 1>>, <<1, 4>>, <<1, 2>>, <<1, 1>>}

\* Scenario D of the specification: [1, 2, ..., 50, 10000], queried for 10000.
ScenarioD_S == [i \in 1..51 |-> IF i <= 50 THEN i ELSE 10000]
ScenarioD_q == ScenarioD_S[51]

SeqsUpTo(n, maxv) == UNION {[1..k -> 0..maxv] : k \in 0..n}

Inputs == SeqsUpTo(MaxLen, MaxVal) \cup {ScenarioD_S}
SmallInputs == SeqsUpTo(SmallLen, SmallVal)

Queries == (-1..(MaxVal + 1)) \cup {ScenarioD_q}
SmallQueries == -1..(SmallVal + 1)
CmInputs == SeqsUpTo(CmLen, CmVal)
CmQueries == -1..(CmVal + 1)
CmThresholds == {<<0, 1>>, <<1, 4>>, <<1, 1>>}

-----------------------------------------------------------------------------
(* Python primitives. *)

\* sorted(array): ascending order, duplicates kept.
RECURSIVE InsertSorted(_, _)
InsertSorted(x, s) ==
    IF s = <<>> THEN <<x>>
    ELSE IF x <= Head(s) THEN <<x>> \o s
    ELSE <<Head(s)>> \o InsertSorted(x, Tail(s))

\* Mutant of Sorted: the constructor keeps the list in the order given.
Sorted_Unsorted(s) == s

RECURSIVE Sorted(_)
Sorted(s) == IF s = <<>> THEN <<>> ELSE InsertSorted(Head(s), Sorted(Tail(s)))

\* list[i] raises IndexError unless -len <= i < len.
IndexOK(arr, i) == i >= -Len(arr) /\ i < Len(arr)

\* list[i], for an index that is in range; a negative i counts from the end.
PyGet(arr, i) == IF i >= 0 THEN arr[i + 1] ELSE arr[Len(arr) + i + 1]

\* a // b on integers: the floor of a / b, for any non-zero b.
FloorDiv(a, b) == IF b > 0 THEN a \div b ELSE (-a) \div (-b)

\* x < t for x = f[1] / f[2] (f[2] # 0) and t = t[1] / t[2] (t[2] > 0).
FracLess(f, t) ==
    IF f[2] > 0 THEN f[1] * t[2] < t[1] * f[2]
    ELSE f[1] * t[2] > t[1] * f[2]

\* bool(threshold) of a number: zero is falsy.
Truthy(t) == t # None /\ t[1] # 0

-----------------------------------------------------------------------------
(* ArraySearcher *)

\* ArraySearcher.__init__: the only attribute is the sorted array. The
\* attributes that search() creates are given here the values that the first
\* call's initialisation overwrites before anything reads them.
NewSearcher(input) ==
    [array |-> Sorted(input),
     query_val |-> 0,
     search_strategy |-> "mixed",
     interpolation_threshold |-> DefaultThreshold,
     query_val_idx |-> None,
     search_count |-> 0,
     interpolation_count |-> 0,
     binary_count |-> 0]

\* The locals of a thread that is not inside search().
IdleFrame ==
    [pc |-> "idle",
     query_val |-> 0,
     search_strategy |-> "mixed",
     interpolation_threshold |-> DefaultThreshold,
     verbose |-> FALSE,
     idx_top |-> 0,
     idx_bottom |-> 0,
     idx_guess |-> None,
     search_mode |-> "interpolation",
     ret |-> None,
     err |-> "none"]

\* _calc_array_elimination: the eliminated fraction as <<num, den>>; the
\* division raises ZeroDivisionError when den = 0.
CalcArrayElimination(idx_guess, idx_top, idx_bottom, mode) ==
    IF mode = "low"
    THEN <<(idx_guess + 1) - idx_bottom, (idx_top + 1) - idx_bottom>>
    ELSE <<idx_top - (idx_guess - 1), (idx_top + 1) - idx_bottom>>

\* Mutant of IdxGuess: the window is taken one element too wide.
IdxGuess_WideWindow(s, idx_top, idx_bottom, search_mode) ==
    IF search_mode = "interpolation"
    THEN FloorDiv((idx_top + 1 - idx_bottom) * (s.query_val - PyGet(s.array, idx_bottom)),
                  PyGet(s.array, idx_top) - PyGet(s.array, idx_bottom)) + idx_bottom
    ELSE idx_bottom + FloorDiv(idx_top + 1 - idx_bottom, 2)

\* _idx_guess: the index guessed (the counters are updated by GuessCounts).
IdxGuess(s, idx_top, idx_bottom, search_mode) ==
    IF search_mode = "interpolation"
    THEN FloorDiv((idx_top - idx_bottom) * (s.query_val - PyGet(s.array, idx_bottom)),
                  PyGet(s.array, idx_top) - PyGet(s.array, idx_bottom)) + idx_bottom
    ELSE idx_bottom + FloorDiv(idx_top - idx_bottom, 2)

\* Mutant of GuessCounts: a binary guess is counted in search_count only.
GuessCounts_BinaryUncounted(s, search_mode) ==
    [s EXCEPT !.interpolation_count = IF search_mode = "interpolation" THEN @ + 1 ELSE @,
              !.search_count = @ + 1]

\* _idx_guess: the counters after a guess in search_mode.
GuessCounts(s, search_mode) ==
    [s EXCEPT !.interpolation_count = IF search_mode = "interpolation" THEN @ + 1 ELSE @,
              !.binary_count = IF search_mode = "binary" THEN @ + 1 ELSE @,
              !.search_count = @ + 1]

\* Mutant of SetSearchMode: a binary step is not followed by a return to
\* interpolation.
SetSearchMode_StayBinary(s, array_elimination_fraction, search_mode) ==
    IF FracLess(array_elimination_fraction, s.interpolation_threshold) THEN "binary"
    ELSE search_mode

\* _set_search_mode
SetSearchMode(s, array_elimination_fraction, search_mode) ==
    IF search_mode = "binary" THEN "interpolation"
    ELSE IF FracLess(array_elimination_fraction, s.interpolation_threshold) THEN "binary"
    ELSE search_mode

\* Mutant of OutOfRange: only the lower end of the range is checked.
OutOfRange_LowerOnly(s, query_val, idx_top, idx_bottom) ==
    ~(query_val >= PyGet(s.array, idx_bottom))

\* The range check of search(): TRUE when the query value is rejected.
OutOfRange(s, query_val, idx_top, idx_bottom) ==
    ~(query_val >= PyGet(s.array, idx_bottom) /\ query_val <= PyGet(s.array, idx_top))

\* The starting search mode of a strategy.
StartMode(search_strategy) ==
    IF search_strategy \in {"mixed", "interpolation"} THEN "interpolation" ELSE "binary"

\* Mutant of InitAttributes: the result and the counters of the call before
\* are kept.
InitAttributes_KeepLast(s0, query_val, interpolation_threshold, search_strategy) ==
    [s0 EXCEPT !.query_val = query_val,
               !.search_strategy = search_strategy,
               !.interpolation_threshold = interpolation_threshold]

\* search(): the searcher's attributes as the call initialises them.
InitAttributes(s0, query_val, interpolation_threshold, search_strategy) ==
    [s0 EXCEPT !.query_val = query_val,
               !.search_strategy = search_strategy,
               !.interpolation_threshold = interpolation_threshold,
               !.query_val_idx = None,
               !.search_count = 0,
               !.interpolation_count = 0,
               !.binary_count = 0]

\* search(), from its entry to the first test of the while loop.
\* The result is the pair [s: the searcher, f: the caller's locals].
SearchEntry(s0, query_val, interpolation_threshold, search_strategy, verbose) ==
    LET s == InitAttributes(s0, query_val, interpolation_threshold, search_strategy)
        idx_top == Len(s.array) - 1
        idx_bottom == 0
        f == [IdleFrame EXCEPT !.query_val = query_val,
                               !.search_strategy = search_strategy,
                               !.interpolation_threshold = interpolation_threshold,
                               !.verbose = verbose,
                               !.idx_top = idx_top,
                               !.idx_bottom = idx_bottom]
    IN  IF ~IndexOK(s.array, idx_bottom) \/ ~IndexOK(s.array, idx_top)
        THEN [s |-> s, f |-> [f EXCEPT !.pc = "raised", !.err = "IndexError"]]
        ELSE IF OutOfRange(s, query_val, idx_top, idx_bottom)
        THEN [s |-> s, f |-> [f EXCEPT !.pc = "raised", !.err = "ValueError"]]
        ELSE [s |-> s,
              f |-> [f EXCEPT !.pc = "loop",
                              !.search_mode = StartMode(search_strategy),
                              !.interpolation_threshold =
                                  IF search_strategy = "binary" THEN <<1, 1>> ELSE @]]

\* Mutant of EqualBounds: the bounds are compared, not the values at them.
EqualBounds_Indices(s, idx_top, idx_bottom) == idx_top = idx_bottom

\* The test that opens the loop body: the values at both bounds are equal.
EqualBounds(s, idx_top, idx_bottom) ==
    PyGet(s.array, idx_top) = PyGet(s.array, idx_bottom)

\* The branch of the loop body taken when the guess is too low or too high.
Eliminate(s, f, idx_guess, mode) ==
    LET frac == CalcArrayElimination(idx_guess, f.idx_top, f.idx_bottom, mode)
        g == [f EXCEPT !.idx_guess = <<idx_guess>>]
    IN  IF frac[2] = 0
        THEN [s |-> s, f |-> [g EXCEPT !.pc = "raised", !.err = "ZeroDivisionError"]]
        ELSE [s |-> s,
              f |-> [g EXCEPT !.idx_bottom = IF mode = "low" THEN idx_guess + 1 ELSE @,
                              !.idx_top = IF mode = "high" THEN idx_guess - 1 ELSE @,
                              !.search_mode =
                                  IF f.search_strategy = "mixed"
                                  THEN SetSearchMode(s, frac, f.search_mode)
                                  ELSE @]]

\* One pass of the while loop of search(): the test of the loop condition and,
\* when it holds, the loop body.
LoopBody(s, f) ==
    IF s.query_val_idx # None
    THEN [s |-> s, f |-> [f EXCEPT !.pc = "exit"]]
    ELSE IF ~IndexOK(s.array, f.idx_top) \/ ~IndexOK(s.array, f.idx_bottom)
    THEN [s |-> s, f |-> [f EXCEPT !.pc = "raised", !.err = "IndexError"]]
    ELSE IF EqualBounds(s, f.idx_top, f.idx_bottom)
    THEN [s |-> [s EXCEPT !.query_val_idx = <<f.idx_bottom>>],
          f |-> [f EXCEPT !.pc = "exit"]]
    ELSE IF f.search_mode = "interpolation"
            /\ PyGet(s.array, f.idx_top) - PyGet(s.array, f.idx_bottom) = 0
    THEN \* the division of _idx_guess, after it has counted the interpolation step
         [s |-> [s EXCEPT !.interpolation_count = @ + 1],
          f |-> [f EXCEPT !.pc = "raised", !.err = "ZeroDivisionError"]]
    ELSE LET idx_guess == IdxGuess(s, f.idx_top, f.idx_bottom, f.search_mode)
             s1 == GuessCounts(s, f.search_mode)
             g == [f EXCEPT !.idx_guess = <<idx_guess>>]
         IN  IF ~IndexOK(s.array, idx_guess)
             THEN [s |-> s1, f |-> [g EXCEPT !.pc = "raised", !.err = "IndexError"]]
             ELSE IF PyGet(s.array, idx_guess) = f.query_val
             THEN [s |-> [s1 EXCEPT !.query_val_idx = <<idx_guess>>],
                   f |-> [g EXCEPT !.pc = "exit"]]
             ELSE IF PyGet(s.array, idx_guess) < f.query_val
             THEN Eliminate(s1, f, idx_guess, "low")
             ELSE Eliminate(s1, f, idx_guess, "high")

\* search(), after the loop: the closing message of verbose mode, which
\* formats idx_guess, and the return of self.query_val_idx.
ExitBody(s, f) ==
    IF f.verbose /\ f.idx_guess = None
    THEN [s |-> s, f |-> [f EXCEPT !.pc = "raised", !.err = "UnboundLocalError"]]
    ELSE [s |-> s, f |-> [f EXCEPT !.pc = "returned", !.ret = s.query_val_idx]]

\* The while loop of search() run to its end from (s, f), then the exit; a run
\* is followed for at most MaxSteps guesses, and one cut there ends with
\* pc = "loop".
RECURSIVE RunLoop(_, _)
RunLoop(s, f) ==
    IF f.pc = "loop" /\ s.search_count < MaxSteps
    THEN LET r == LoopBody(s, f) IN RunLoop(r.s, r.f)
    ELSE IF f.pc = "exit" THEN ExitBody(s, f)
    ELSE [s |-> s, f |-> f]

\* A whole call of search() with nothing else running.
RunSearch(s0, query_val, interpolation_threshold, search_strategy, verbose) ==
    LET e == SearchEntry(s0, query_val, interpolation_threshold, search_strategy, verbose)
    IN  RunLoop(e.s, e.f)

\* What a caller sees of a call: how it ended, the index returned or the
\* error raised, and the counters.
Outcome(s, f) ==
    [pc |-> f.pc, ret |-> f.ret, err |-> f.err,
     search_count |-> s.search_count,
     interpolation_count |-> s.interpolation_count,
     binary_count |-> s.binary_count]

\* compare_methods: the keyword arguments of each call of search(), in the
\* order of the calls. mixed_thresholds is None or <<list>>; an argument
\* that is not passed is None.
ArgsList(mixed_thresholds) ==
    <<[search_strategy |-> "interpolation", interpolation_threshold |-> None]>>
    \o (IF mixed_thresholds # None
        THEN [i \in 1..Len(mixed_thresholds[1]) |->
                 [search_strategy |-> "mixed",
                  interpolation_threshold |-> mixed_thresholds[1][i]]]
        ELSE <<[search_strategy |-> "mixed", interpolation_threshold |-> None]>>)
    \o <<[search_strategy |-> "binary", interpolation_threshold |-> None]>>

\* Mutant of StrategyName: the threshold is left out of the key.
StrategyName_NoThreshold(args_dict) == <<args_dict.search_strategy>>

\* compare_methods: the key of a run in the returned dictionary, <<strategy>>
\* for 'strategy' and <<strategy, threshold>> for 'strategy-threshold'.
StrategyName(args_dict) ==
    IF Truthy(args_dict.interpolation_threshold)
    THEN <<args_dict.search_strategy, args_dict.interpolation_threshold>>
    ELSE <<args_dict.search_strategy>>

\* compare_methods: the threshold search() runs with, its default when the
\* argument is not passed.
PassedThreshold(args_dict) ==
    IF args_dict.interpolation_threshold = None THEN DefaultThreshold
    ELSE args_dict.interpolation_threshold

\* performance_dict[key] = value
DictSet(d, key, value) ==
    [k \in (DOMAIN d) \cup {key} |-> IF k = key THEN value ELSE d[k]]

-----------------------------------------------------------------------------
(* Actions *)

\* The locals of compare_methods when it is not running.
NoCompare == [pc |-> "none", todo |-> <<>>, query_val |-> 0, mixed_thresholds |-> None,
              verbose |-> FALSE, performance_dict |-> <<>>]

\* The locals of generate_random_int_array when it is not running.
NoGen == [pc |-> "none", min_val |-> 0, max_val |-> 0, array_length |-> 0,
          array |-> <<>>]

InitWith(inputs) ==
    /\ \E input \in inputs : self = NewSearcher(input)
    /\ frame = [t \in Threads |-> IdleFrame]
    /\ cm = NoCompare
    /\ calls = 0
    /\ gen = NoGen

Init == InitWith(Inputs)

\* A caller on thread t enters search().
Search(t, query_val, interpolation_threshold, search_strategy, verbose) ==
    /\ frame[t].pc = "idle"
    /\ LET r == SearchEntry(self, query_val, interpolation_threshold,
                            search_strategy, verbose)
       IN  /\ self' = r.s
           /\ frame' = [frame EXCEPT ![t] = r.f]
    /\ calls' = calls + 1
    /\ UNCHANGED <<cm, gen>>

\* Thread t runs one pass of the while loop.
LoopIter(t) ==
    /\ frame[t].pc = "loop"
    /\ self.search_count < MaxSteps
    /\ LET r == LoopBody(self, frame[t])
       IN  /\ self' = r.s
           /\ frame' = [frame EXCEPT ![t] = r.f]
    /\ UNCHANGED <<cm, calls, gen>>

\* Thread t leaves search().
Return(t) ==
    /\ frame[t].pc = "exit"
    /\ LET r == ExitBody(self, frame[t])
       IN  /\ self' = r.s
           /\ frame' = [frame EXCEPT ![t] = r.f]
    /\ UNCHANGED <<cm, calls, gen>>

UserSearch ==
    /\ cm.pc = "none"
    /\ frame[Main].pc = "idle"
    /\ \E q \in Queries, thr \in Thresholds, st \in Strategies, v \in BOOLEAN :
           Search(Main, q, thr, st, v)

Next ==
    \/ UserSearch
    \/ LoopIter(Main)
    \/ Return(Main)

Spec == Init /\ [][Next]_vars

-----------------------------------------------------------------------------
(* compare_methods, on a searcher over a short list *)

ThresholdLists == UNION {[1..k -> CmThresholds] : k \in 0..MaxThresholds}

\* A caller enters compare_methods.
CompareMethods ==
    /\ cm.pc = "none"
    /\ frame[Main].pc = "idle"
    /\ \E q \in CmQueries, v \in BOOLEAN,
          mt \in {None} \cup {<<l>> : l \in ThresholdLists} :
           cm' = [pc |-> "running", todo |-> ArgsList(mt), query_val |-> q,
                  mixed_thresholds |-> mt, verbose |-> v, performance_dict |-> <<>>]
    /\ UNCHANGED <<self, frame, calls, gen>>

\* compare_methods calls search() for the next run.
CmSearch ==
    /\ cm.pc = "running"
    /\ frame[Main].pc = "idle"
    /\ Search(Main, cm.query_val, PassedThreshold(Head(cm.todo)),
              Head(cm.todo).search_strategy, cm.verbose)

\* search() has returned: compare_methods stores the run's search_count and
\* goes on to the next run, or returns the dictionary after the last.
CmRecord ==
    /\ cm.pc = "running"
    /\ frame[Main].pc = "returned"
    /\ cm' = [cm EXCEPT !.performance_dict =
                            DictSet(@, StrategyName(Head(cm.todo)), self.search_count),
                        !.todo = Tail(@),
                        !.pc = IF Tail(cm.todo) = <<>> THEN "returned" ELSE @]
    /\ frame' = [frame EXCEPT ![Main] = [@ EXCEPT !.pc = "idle"]]
    /\ UNCHANGED <<self, calls, gen>>

\* search() has raised: the error leaves compare_methods too.
CmRaise ==
    /\ cm.pc = "running"
    /\ frame[Main].pc = "raised"
    /\ cm' = [cm EXCEPT !.pc = "raised"]
    /\ UNCHANGED <<self, frame, calls, gen>>

NextCompare ==
    \/ CompareMethods
    \/ CmSearch
    \/ LoopIter(Main)
    \/ Return(Main)
    \/ CmRecord
    \/ CmRaise

SpecCompare == InitWith(CmInputs) /\ [][NextCompare]_vars

-----------------------------------------------------------------------------
(* Two threads calling search() on one searcher, with no synchronization.  *)
(* A thread is switched only between the steps Search, LoopIter and Return. *)

ConcSearch(t) ==
    /\ frame[t].pc = "idle"
    /\ \E q \in SmallQueries, st \in Strategies :
           Search(t, q, DefaultThreshold, st, FALSE)

NextConc == \E t \in Threads : ConcSearch(t) \/ LoopIter(t) \/ Return(t)

SpecConc == InitWith(SmallInputs) /\ [][NextConc]_vars

-----------------------------------------------------------------------------
(* Calls of search() made one after another on one searcher: the next call *)
(* is made when the one before has returned or raised.                      *)

SearchAgain ==
    /\ cm.pc = "none"
    /\ frame[Main].pc \in {"idle", "returned", "raised"}
    /\ calls < MaxCalls
    /\ \E q \in SmallQueries, thr \in CmThresholds, st \in Strategies, v \in BOOLEAN :
           LET r == SearchEntry(self, q, thr, st, v)
           IN  /\ self' = r.s
               /\ frame' = [frame EXCEPT ![Main] = r.f]
    /\ calls' = calls + 1
    /\ UNCHANGED <<cm, gen>>

NextRepeat ==
    \/ SearchAgain
    \/ LoopIter(Main)
    \/ Return(Main)

SpecRepeat == InitWith(SmallInputs) /\ [][NextRepeat]_vars

-----------------------------------------------------------------------------
(* generate_random_int_array of src/IST.py: a list comprehension that draws *)
(* one random.randint(min_val, max_val) for each index of                   *)
(* range(array_length).                                                     *)

\* Mutant of PyRange: the end is included.
PyRange_Inclusive(n) == 0..n

\* range(n): the indices 0, ..., n-1; empty when n <= 0.
PyRange(n) == 0..(n - 1)

\* random.randint(a, b): the values it can return, both ends included; with
\* a > b there is none and the call raises ValueError.
RandInt(a, b) == a..b

GenArgs == (-GenVal)..GenVal

\* The call generate_random_int_array(min_val, max_val, array_length).
Generate ==
    /\ gen.pc = "none"
    /\ \E min_val \in GenArgs, max_val \in GenArgs, array_length \in 0..GenLen :
           gen' = [pc |-> "comprehension", min_val |-> min_val, max_val |-> max_val,
                   array_length |-> array_length, array |-> <<>>]
    /\ UNCHANGED <<self, frame, cm, calls>>

\* One iteration of the comprehension: the next index of the range is taken
\* and random.randint draws the element appended to the list.
GenDraw ==
    /\ gen.pc = "comprehension"
    /\ Len(gen.array) \in PyRange(gen.array_length)
    /\ IF RandInt(gen.min_val, gen.max_val) = {}
       THEN gen' = [gen EXCEPT !.pc = "raised"]
       ELSE \E e \in RandInt(gen.min_val, gen.max_val) :
                gen' = [gen EXCEPT !.array = Append(@, e)]
    /\ UNCHANGED <<self, frame, cm, calls>>

\* The range is exhausted: the list is returned.
GenReturn ==
    /\ gen.pc = "comprehension"
    /\ Len(gen.array) \notin PyRange(gen.array_length)
    /\ gen' = [gen EXCEPT !.pc = "returned"]
    /\ UNCHANGED <<self, frame, cm, calls>>

NextGen ==
    \/ Generate
    \/ GenDraw
    \/ GenReturn

SpecGen == InitWith({<<>>}) /\ [][NextGen]_vars

-----------------------------------------------------------------------------
(* Properties *)

Values(arr) == {arr[i] : i \in 1..Len(arr)}

\* The call of search() on the main thread, once it has been entered.
Called == frame[Main].pc # "idle"
Finished == frame[Main].pc \in {"returned", "raised"}

\* C1: a query value that occurs in a non-empty list is found: the call is
\* never cut short, raises nothing (when not verbose), and what it returns is
\* an index in 0..len-1 at which the sorted list holds the query value.
\* This holds for each strategy and each threshold.
C1_PresentValueFound ==
    LET f == frame[Main] IN
    (Called /\ f.query_val \in Values(self.array)) =>
        /\ f.pc = "loop" => self.search_count < MaxSteps
        /\ ~f.verbose => f.pc # "raised"
        /\ f.pc = "returned" =>
              /\ f.ret # None
              /\ f.ret[1] >= 0 /\ f.ret[1] < Len(self.array)
              /\ self.array[f.ret[1] + 1] = f.query_val

\* C1 witness: a mixed search has returned after two or more guesses on a
\* list that holds the query value more than once.
C1_Witness ==
    LET f == frame[Main] IN
    /\ f.pc = "returned" /\ f.search_strategy = "mixed"
    /\ self.search_count >= 2
    /\ Cardinality({i \in 1..Len(self.array) : self.array[i] = f.query_val}) >= 2

\* C2: a query value below the minimum or above the maximum of a non-empty
\* list ends the call with the ValueError of the range check, and no guess
\* has been made: the three counters are 0.
C2_OutOfRangeRejected ==
    LET f == frame[Main] IN
    (/\ Called /\ self.array # <<>>
     /\ \/ \A x \in Values(self.array) : f.query_val < x
        \/ \A x \in Values(self.array) : f.query_val > x) =>
        /\ f.pc = "raised" /\ f.err = "ValueError"
        /\ f.idx_guess = None
        /\ self.search_count = 0
        /\ self.interpolation_count = 0
        /\ self.binary_count = 0

\* C2 witness: a binary search for a value above the maximum has been rejected.
C2_Witness ==
    LET f == frame[Main] IN
    /\ f.pc = "raised" /\ f.err = "ValueError" /\ f.search_strategy = "binary"
    /\ Len(self.array) >= 2
    /\ \A x \in Values(self.array) : f.query_val > x

\* C3 (as claimed): every pass of the loop that does not end the call leaves
\* the window idx_top - idx_bottom strictly smaller, which is what bounds the
\* number of passes.
C3_EveryPassShrinksWindow ==
    [][(frame[Main].pc = "loop" /\ frame'[Main].pc = "loop")
         => (frame'[Main].idx_top - frame'[Main].idx_bottom
               < frame[Main].idx_top - frame[Main].idx_bottom)]_vars

\* C4 (as claimed): on a non-empty list, a call that is not verbose raises
\* nothing but the ValueError of the range check.
C4_OnlyOutOfRangeError ==
    LET f == frame[Main] IN
    (self.array # <<>> /\ ~f.verbose /\ f.pc = "raised") => f.err = "ValueError"

\* The outcome of the main thread's call had it been made alone on this
\* searcher with the given verbosity.
AloneOutcome(t, verbose) ==
    LET f == frame[t]
        r == RunSearch(self, f.query_val, f.interpolation_threshold,
                       f.search_strategy, verbose)
    IN  Outcome(r.s, r.f)

\* C5 (as claimed): with two calls interleaved on one searcher, both for
\* values the list holds, a call that ends does so with the index, the error
\* and the counters it has when it runs alone.
C5_ConcurrentCallsIndependent ==
    [][\A t \in Threads :
          (/\ frame[t].pc \in {"loop", "exit"}
           /\ frame'[t].pc \in {"returned", "raised"}
           /\ \A u \in Threads : /\ frame[u].pc # "idle"
                                  /\ frame[u].query_val \in Values(self.array))
          => Outcome(self', frame'[t]) = AloneOutcome(t, frame[t].verbose)]_vars

\* The least k with 2^k >= n, for n >= 1: ceil(log2(n)).
RECURSIVE CeilLog2From(_, _, _)
CeilLog2From(n, k, p) == IF p >= n THEN k ELSE CeilLog2From(n, k + 1, 2 * p)
CeilLog2(n) == CeilLog2From(n, 0, 1)

\* C6 (as claimed): a binary search of a non-empty list never makes more
\* than ceil(log2(len)) guesses.
C6_BinaryStepBound ==
    LET f == frame[Main] IN
    (Called /\ self.array # <<>> /\ f.search_strategy = "binary") =>
        self.search_count <= CeilLog2(Len(self.array))

\* C7: on a non-empty list of one repeated value v, a search for v makes no
\* guess (the counters stay 0 and idx_guess is never bound), leaves the loop
\* through the equal-bounds test with index 0, and returns 0 when it is not
\* verbose; this holds for each strategy.
C7_RepeatedValueList ==
    LET f == frame[Main] IN
    (Called /\ self.array # <<>> /\ Values(self.array) = {f.query_val}) =>
        /\ self.search_count = 0
        /\ self.interpolation_count = 0
        /\ self.binary_count = 0
        /\ f.idx_guess = None
        /\ f.pc # "loop" => self.query_val_idx = <<0>>
        /\ ~f.verbose => f.pc \in {"loop", "exit", "returned"}
        /\ f.pc = "returned" => f.ret = <<0>>

\* C7 witness: a binary search of three or more copies of one value has
\* returned.
C7_Witness ==
    LET f == frame[Main] IN
    /\ f.pc = "returned" /\ f.search_strategy = "binary"
    /\ Len(self.array) >= 3 /\ Values(self.array) = {f.query_val}

\* The number of runs compare_methods makes.
TotalRuns(mt) == IF mt = None THEN 3 ELSE 2 + Len(mt[1])

\* The key of a mixed run with threshold t: 'mixed-t', or 'mixed' when t is 0.
MixedKey(t) == IF t[1] = 0 THEN <<"mixed">> ELSE <<"mixed", t>>

\* The search_count of a search made alone for compare_methods' query value.
RunCount(thr, strategy) ==
    RunSearch(self, cm.query_val, thr, strategy, cm.verbose).s.search_count

\* C8 (as claimed): the dictionary compare_methods returns has one entry
\* per run: 3 without thresholds, 2 + len(mixed_thresholds) with them.
C8_OneEntryPerRun ==
    cm.pc = "returned" =>
        Cardinality(DOMAIN cm.performance_dict) = TotalRuns(cm.mixed_thresholds)

\* C8 (amended): the dictionary returned has one entry per distinct label:
\* 'interpolation', 'binary', and 'mixed' without thresholds or else the label
\* of each threshold given ('mixed-t', 'mixed' for a threshold of 0), so that
\* equal thresholds share an entry; each entry holds the search_count of the
\* run its label names, and no entry is there before its run has been made.
C8_OneEntryPerLabel ==
    LET mt == cm.mixed_thresholds
        pd == cm.performance_dict
    IN  /\ cm.pc = "running" =>
              Cardinality(DOMAIN pd) <= TotalRuns(mt) - Len(cm.todo)
        /\ cm.pc = "returned" =>
              /\ DOMAIN pd =
                    {<<"interpolation">>, <<"binary">>}
                    \cup (IF mt = None THEN {<<"mixed">>}
                          ELSE {MixedKey(mt[1][i]) : i \in 1..Len(mt[1])})
              /\ pd[<<"interpolation">>] = RunCount(DefaultThreshold, "interpolation")
              /\ pd[<<"binary">>] = RunCount(DefaultThreshold, "binary")
              /\ mt = None => pd[<<"mixed">>] = RunCount(DefaultThreshold, "mixed")
              /\ mt # None =>
                    \A i \in 1..Len(mt[1]) :
                        pd[MixedKey(mt[1][i])] = RunCount(mt[1][i], "mixed")

\* C8 witness: compare_methods has returned after two mixed runs with the
\* same threshold, which share the entry 'mixed-t'.
C8_Witness ==
    LET mt == cm.mixed_thresholds IN
    /\ cm.pc = "returned" /\ mt # None /\ Len(mt[1]) = 2
    /\ mt[1][1] = mt[1][2] /\ mt[1][1][1] # 0
    /\ Cardinality(DOMAIN cm.performance_dict) = 3

\* C9 (as claimed): a call that has ended has the outcome (returned index or
\* error, and counters) of the same call made with the other verbosity.
C9_VerboseSameOutcome ==
    (Finished /\ self.array # <<>>) =>
        Outcome(self, frame[Main]) = AloneOutcome(Main, ~frame[Main].verbose)

\* The mixed search with threshold 0.25 of [1, ..., 50, 10000].
ScenarioD(q) ==
    LET f == frame[Main] IN
    /\ Called /\ self.array = ScenarioD_S /\ f.query_val = q
    /\ f.search_strategy = "mixed" /\ self.interpolation_threshold = <<1, 4>>

\* C10 (as claimed): scenario D, the search for 10000, takes a binary step.
C10_ScenarioD_BinaryStep ==
    (ScenarioD(ScenarioD_q) /\ frame[Main].pc = "returned") => self.binary_count >= 1

\* C10 (amended): scenario D's search for 10000 takes no binary step: its
\* first interpolation guess is the last index, 50, which holds 10000, so it
\* returns 50 after one interpolation step. The same search for 2, a value
\* below the outlier, does take a binary step.
C10_ScenarioD_NoBinaryStep ==
    LET f == frame[Main] IN
    /\ ScenarioD(ScenarioD_q) =>
          /\ self.binary_count = 0
          /\ ~f.verbose => f.pc # "raised"
          /\ f.pc = "loop" => self.search_count = 0
          /\ f.pc # "loop" =>
                /\ self.query_val_idx = <<50>>
                /\ self.search_count = 1 /\ self.interpolation_count = 1
          /\ f.pc = "returned" => f.ret = <<50>>
    /\ (ScenarioD(2) /\ f.pc = "returned") =>
          /\ self.binary_count >= 1
          /\ f.ret = <<1>>

\* C10 witness: scenario D's search for 10000 has returned.
C10_Witness == ScenarioD(ScenarioD_q) /\ frame[Main].pc = "returned"

\* The outcome of the main thread's call made as the first call of a
\* searcher newly constructed over the same list.
FreshOutcome ==
    LET f == frame[Main]
        r == RunSearch(NewSearcher(self.array), f.query_val,
                       self.interpolation_threshold, f.search_strategy, f.verbose)
    IN  Outcome(r.s, r.f)

\* C11: whatever calls of search() came before on the searcher (returned or
\* raised, with any arguments), a call runs from each of its states to the
\* outcome, index or error and the three counters, that the same call has as
\* the first call of a new searcher over the same list.
C11_EarlierCallsLeaveNoTrace ==
    Called =>
        LET r == RunLoop(self, frame[Main])
        IN  Outcome(r.s, r.f) = FreshOutcome

\* C11 witness: a call that is not the searcher's first has returned after
\* one guess or more.
C11_Witness ==
    /\ calls >= 2
    /\ frame[Main].pc = "returned"
    /\ self.search_count >= 1

\* C12: generate_random_int_array(min_val, max_val, array_length) with
\* min_val <= max_val and array_length >= 0 raises nothing and, whatever
\* random.randint draws, returns a list of exactly array_length elements,
\* each of them e with min_val <= e <= max_val.
C12_GeneratedArrayInBounds ==
    (gen.min_val <= gen.max_val /\ gen.array_length >= 0) =>
        /\ gen.pc # "raised"
        /\ \A i \in 1..Len(gen.array) :
              gen.min_val <= gen.array[i] /\ gen.array[i] <= gen.max_val
        /\ gen.pc = "returned" => Len(gen.array) = gen.array_length

\* C12 witness: a list of GenLen elements has been returned that holds both
\* min_val and max_val, which differ.
C12_Witness ==
    /\ gen.pc = "returned"
    /\ gen.array_length = GenLen
    /\ gen.min_val < gen.max_val
    /\ \E i, j \in 1..Len(gen.array) :
          gen.array[i] = gen.min_val /\ gen.array[j] = gen.max_val

\* C13 (as claimed): on a non-empty list, each iteration of the loop starts
\* with a window inside the list that is not crossed:
\* 0 <= idx_bottom <= idx_top <= len(array) - 1.
C13_WindowWithinList ==
    LET f == frame[Main] IN
    (f.pc = "loop" /\ self.array # <<>> /\ self.query_val_idx = None) =>
        /\ 0 <= f.idx_bottom
        /\ f.idx_bottom <= f.idx_top
        /\ f.idx_top <= Len(self.array) - 1

\* The width of the window of a call.
Width(f) == f.idx_top - f.idx_bottom

\* C14 (as claimed): within one call on a non-empty list, an iteration that
\* makes a guess and is followed by another iteration leaves the next one a
\* window strictly narrower than its own.
C14_WidthStrictlyDecreases ==
    [][(/\ self.array # <<>>
        /\ frame[Main].pc = "loop"
        /\ self'.search_count = self.search_count + 1
        /\ frame'[Main].pc = "loop")
         => Width(frame'[Main]) < Width(frame[Main])]_vars

\* C15: in a mixed search the first iteration starts in interpolation mode.
\* An iteration that guesses in the mode it started in (the counter of that
\* mode is the one that grows) and is followed by another leaves that one
\* in binary mode exactly when it was an interpolation step and the fraction
\* it eliminated, computed from the bounds it started with, is strictly
\* below the threshold passed to the call; otherwise it leaves it in
\* interpolation mode, as every binary step does.
C15_MixedModeSequence ==
    [][LET f == frame[Main]
           g == frame'[Main]
       IN  /\ (g.search_strategy = "mixed" /\ g.pc = "loop" /\ self'.search_count = 0)
                 => g.search_mode = "interpolation"
           /\ (/\ f.search_strategy = "mixed"
               /\ f.pc = "loop" /\ g.pc = "loop"
               /\ self'.search_count = self.search_count + 1)
                 => LET guess == g.idx_guess[1]
                        mode == IF PyGet(self.array, guess) < f.query_val
                                THEN "low" ELSE "high"
                        frac == CalcArrayElimination(guess, f.idx_top, f.idx_bottom, mode)
                    IN  /\ (f.search_mode = "interpolation")
                              <=> (self'.interpolation_count = self.interpolation_count + 1)
                        /\ (f.search_mode = "binary")
                              <=> (self'.binary_count = self.binary_count + 1)
                        /\ g.search_mode \in {"interpolation", "binary"}
                        /\ (g.search_mode = "binary")
                              <=> (/\ f.search_mode = "interpolation"
                                   /\ FracLess(frac, self.interpolation_threshold))
                        /\ f.search_mode = "binary" => g.search_mode = "interpolation"]_vars

\* C15 witness: a mixed search is at the start of an iteration in
\* interpolation mode after an interpolation step and then a binary step, and
\* the query value is in the list.
C15_Witness ==
    LET f == frame[Main] IN
    /\ f.pc = "loop" /\ f.search_strategy = "mixed"
    /\ f.query_val \in Values(self.array)
    /\ self.interpolation_count = 1 /\ self.binary_count = 1
    /\ f.search_mode = "interpolation"

\* The counters of the searcher add up, and a pure strategy counts no step of
\* the other mode.
CountersAddUp(s) ==
    /\ s.search_count = s.interpolation_count + s.binary_count
    /\ s.search_strategy = "binary" => s.interpolation_count = 0
    /\ s.search_strategy = "interpolation" => s.binary_count = 0

\* C16: from the entry of a call on, at the start of each iteration and when
\* the call has ended, search_count = interpolation_count + binary_count,
\* with interpolation_count = 0 under 'binary' and binary_count = 0 under
\* 'interpolation'. The call starts with the counters at 0; an iteration that
\* makes a guess (the loop condition holds and the values at the two bounds
\* differ) adds one to search_count and one to the counter of the mode it
\* guessed in; an iteration that makes none, and the return, change no
\* counter. So search_count is the number of guesses made so far.
C16_CountersCountGuesses ==
    [][LET f == frame[Main]
           g == frame'[Main]
           guesses == /\ self.query_val_idx = None
                      /\ IndexOK(self.array, f.idx_top)
                      /\ IndexOK(self.array, f.idx_bottom)
                      /\ PyGet(self.array, f.idx_top) # PyGet(self.array, f.idx_bottom)
       IN  /\ g.pc # "idle" => CountersAddUp(self')
           /\ f.pc \in {"idle", "returned", "raised"} =>
                 /\ self'.search_count = 0
                 /\ self'.interpolation_count = 0
                 /\ self'.binary_count = 0
           /\ (f.pc = "loop" /\ guesses) =>
                 /\ g.idx_guess # None
                 /\ self'.search_count = self.search_count + 1
                 /\ self'.interpolation_count = self.interpolation_count
                        + (IF f.search_mode = "interpolation" THEN 1 ELSE 0)
                 /\ self'.binary_count = self.binary_count
                        + (IF f.search_mode = "binary" THEN 1 ELSE 0)
           /\ (f.pc = "exit" \/ (f.pc = "loop" /\ ~guesses)) =>
                 /\ self'.search_count = self.search_count
                 /\ self'.interpolation_count = self.interpolation_count
                 /\ self'.binary_count = self.binary_count]_vars

\* C16 witness: a call has returned after two interpolation guesses or more
\* and a binary guess.
C16_Witness ==
    /\ frame[Main].pc = "returned"
    /\ self.interpolation_count >= 2
    /\ self.binary_count >= 1

====
